---- MODULE Spec2Model ----
(***************************************************************************)
(* The OneDrive writer of core/src/services/onedrive/writer.rs.            *)
(*                                                                         *)
(* A OneDriveWriter holds a backend handle, the write options and a path.  *)
(* write(bs) uploads bs with one PUT when bs is at most MAX_SIMPLE_SIZE    *)
(* bytes long, and otherwise creates an upload session (one POST) and      *)
(* sends bs in chunks of CHUNK_SIZE_FACTOR bytes, one request per chunk.   *)
(*                                                                         *)
(* A call of write or write_chunked is a future.  It is suspended at every *)
(* .await: at the backend call, until the response is there, and again at  *)
(* the read of the body of the response (consume, bytes, parse_error).  A  *)
(* step of the model runs a call from one await to the next; between two   *)
(* steps other calls run and the future can be dropped.  write, abort and  *)
(* close take &mut self, so no other call of the writer is alive while     *)
(* they run; write_chunked takes &self, so several of its calls can be     *)
(* alive on one writer.                                                    *)
(*                                                                         *)
(* Byte buffers are sequences of runs [src, lo, hi): the bytes lo..hi-1 of *)
(* payload number src.  Two buffers are the same bytes exactly when their  *)
(* normalised run sequences are equal, which lets the model carry buffers  *)
(* of several megabytes.                                                   *)
(***************************************************************************)
EXTENDS Integers, Sequences, FiniteSets, TLC

VARIABLES
    backend,      \* backend[w]: the backend handle of writer w (field)
    op,           \* op[w]: the write options, here the content type (field)
    path,         \* path[w]: the target path, a sequence of characters (field)
    ret,          \* ret[w]: the last call made on writer w, and its result
    self,         \* self[c]: the writer that call c runs on
    pc,           \* pc[c]: "idle", or the await that call c is suspended at
    entry,        \* entry[c]: the function the current/last upload was entered by
    total_bytes,  \* total_bytes[c]: the payload of the current/last upload
    session,      \* session[c]: upload_url of the session, NoSession if none
    offset,       \* offset[c]: the loop variable of write_chunked
    iter,         \* iter[c]: the chunks the loop has not taken yet
    reqs,         \* reqs[c]: the backend requests of the current/last upload
    resps,        \* resps[c]: TRUE/FALSE per answered request: answered well
    lastResp,     \* lastResp[c]: the last response, with its exact status
    result,       \* result[c]: what the current/last upload returned
    writes,       \* writes[c]: number of uploads that ran as call c
    nextSession,  \* the backend: the upload_url of the next new session
    sessionLog    \* which upload created, and which was sent chunks to, which url

vars == <<backend, op, path, ret, self, pc, entry, total_bytes, session, offset,
          iter, reqs, resps, lastResp, result, writes, nextSession, sessionLog>>

(***************************************************************************)
(* Program constants.                                                      *)
(***************************************************************************)
MAX_SIMPLE_SIZE == 4 * 1024 * 1024

CHUNK_SIZE_FACTOR == 327680

(***************************************************************************)
(* Bounds of the model.                                                    *)
(***************************************************************************)
\* Writers that exist.
NumWriters == 2

\* Calls (futures) that can be alive at the same time.
NumCalls == 2

\* Uploads that run, one after the other, as one call.
MaxWrites == 2

\* Number of chunks of the largest payloads handed to write().
MaxChunks == 14

Writers == 1..NumWriters

Calls == 1..NumCalls

\* The one call of the specification in which the calls follow one another.
SeqCalls == {1}

NoSession == 0

Min(a, b) == IF a < b THEN a ELSE b

\* ceil(a / b) for b > 0
CeilDiv(a, b) == (a + b - 1) \div b

(***************************************************************************)
(* Byte buffers.                                                           *)
(***************************************************************************)
\* The payload p of n bytes.  p names the call that was handed the payload,
\* so that the bytes of two payloads are told apart.
Payload(p, n) == IF n = 0 THEN << >> ELSE << [src |-> p, lo |-> 0, hi |-> n] >>

\* bs.len()
RECURSIVE BytesLen(_)
BytesLen(b) == IF b = << >> THEN 0 ELSE (Head(b).hi - Head(b).lo) + BytesLen(Tail(b))

\* a followed by b, the runs that touch merged
Concat(a, b) ==
    IF a = << >> THEN b
    ELSE IF b = << >> THEN a
    ELSE LET la == a[Len(a)]
             fb == b[1]
         IN  IF la.src = fb.src /\ la.hi = fb.lo
             THEN SubSeq(a, 1, Len(a) - 1)
                      \o << [src |-> la.src, lo |-> la.lo, hi |-> fb.hi] >>
                      \o Tail(b)
             ELSE a \o b

\* &b[i..j]: the bytes i..j-1 of b
RECURSIVE Slice(_, _, _)
Slice(b, i, j) ==
    IF b = << >> \/ i >= j THEN << >>
    ELSE LET r == Head(b)
             n == r.hi - r.lo
         IN  IF i >= n THEN Slice(Tail(b), i - n, j - n)
             ELSE Concat(<< [src |-> r.src, lo |-> r.lo + i, hi |-> r.lo + Min(j, n)] >>,
                         Slice(Tail(b), 0, j - n))

\* Mutant: the shorter last slice is left out.
NumChunksFloor(len, n) == len \div n

\* Number of slices b.chunks(n) yields.
NumChunks(len, n) == CeilDiv(len, n)

\* Mutant: every slice loses its last byte.
ChunksShort(b, n) ==
    LET len == BytesLen(b)
    IN  [i \in 1..NumChunks(len, n) |-> Slice(b, (i - 1) * n, Min(i * n, len) - 1)]

\* Mutant: the slices are half as long as they are meant to be.
ChunksHalf(b, n) ==
    LET len == BytesLen(b)
        h == n \div 2
    IN  [i \in 1..CeilDiv(len, h) |-> Slice(b, (i - 1) * h, Min(i * h, len))]

\* b.chunks(n): consecutive slices of n bytes, the last one shorter when n
\* does not divide the length; none for an empty b.
Chunks(b, n) ==
    LET len == BytesLen(b)
    IN  [i \in 1..NumChunks(len, n) |-> Slice(b, (i - 1) * n, Min(i * n, len))]

(***************************************************************************)
(* Paths.                                                                  *)
(***************************************************************************)
\* Index of the first "/" of s at or after i, 0 if none.
RECURSIVE FirstSlash(_, _)
FirstSlash(s, i) ==
    IF i > Len(s) THEN 0
    ELSE IF s[i] = "/" THEN i
    ELSE FirstSlash(s, i + 1)

\* s.split('/'): the segments between the slashes; one (empty) segment for
\* the empty string.
RECURSIVE Split(_)
Split(s) ==
    LET i == FirstSlash(s, 1)
    IN  IF i = 0 THEN << s >>
        ELSE << SubSeq(s, 1, i - 1) >> \o Split(SubSeq(s, i + 1, Len(s)))

\* self.path.split('/').last(): an Option
FileNameFromPath(p) ==
    LET segs == Split(p)
    IN  IF Len(segs) = 0 THEN [some |-> FALSE, val |-> << >>]
        ELSE [some |-> TRUE, val |-> segs[Len(segs)]]


(***************************************************************************)
(* The backend: its requests and its responses.                            *)
(***************************************************************************)
OK == 200

CREATED == 201

ACCEPTED == 202

NOT_FOUND == 404

\* The statuses a response can carry.
Statuses == {OK, CREATED, ACCEPTED, NOT_FOUND}

\* The backend call itself failed (the `?` on its result): no response.
TransportError == [status |-> 0, body |-> "none"]

NoResponse == [status |-> 0, body |-> "unset"]

\* What the await of onedrive_put, onedrive_post or onedrive_chunked_upload
\* returns: an error, or a response whose status is known and whose body is
\* still to be read.
ResponseHeads == {TransportError} \cup [status : Statuses, body : {"pending"}]

\* What the read of the body of a response to onedrive_put or
\* onedrive_chunked_upload gives: the body ("ok"), or an error ("io_err").
UploadBodies == {"ok", "io_err"}

\* What the read of the body of a response to onedrive_post gives: the body
\* may also be no session JSON.
PostBodies == {"ok", "io_err", "bad_json"}

\* The statuses the protocol documents as success, per kind of request.
SuccessCodes(kind) ==
    CASE kind = "put" -> {CREATED, OK}
      [] kind = "post" -> {OK}
      [] kind = "chunk" -> {ACCEPTED, CREATED, OK}

\* The request was answered with a success status and a complete body.
AnsweredWell(kind, r) == r.status \in SuccessCodes(kind) /\ r.body = "ok"

\* onedrive_put(&self.path, Some(bs.len()), self.op.content_type(), body)
PutRequest(c, bs) ==
    [kind |-> "put", target |-> path[self[c]], size |-> BytesLen(bs),
     content_type |-> op[self[c]], body |-> bs]

\* onedrive_post(&url, body): url names self.path, body names the file
PostRequest(c, name) ==
    [kind |-> "post", target |-> path[self[c]], name |-> name,
     conflict_behavior |-> "replace"]

\* onedrive_chunked_upload(&upload_url, None, offset, chunk_end, total_len, body)
ChunkRequest(url, off, chunk_end, total_len, chunk) ==
    [kind |-> "chunk", url |-> url, start |-> off, end |-> chunk_end,
     total |-> total_len, body |-> chunk]

\* parse_error(resp).await?: what the upload returns for a response of
\* unexpected status.  The response is parsed into a structured backend
\* error, whatever it carries.
ParseError(r) == "Backend"

\* Err(parse_error(resp).await?): the arm of a status that is not accepted.
\* The `?` returns the error of parse_error itself when it fails, here on a
\* response that cannot be read; otherwise the arm returns the parsed error.
UnexpectedStatus(r) == IF r.body = "io_err" THEN "Io" ELSE ParseError(r)

(***************************************************************************)
(* The branches of the writer.                                             *)
(***************************************************************************)
\* Mutant: the threshold itself takes the chunked path.
TakesSimplePathStrict(size) == size < MAX_SIMPLE_SIZE

\* write: size <= Self::MAX_SIMPLE_SIZE
TakesSimplePath(size) == size <= MAX_SIMPLE_SIZE

\* Mutant: 202 Accepted is taken as the success of a put, as it is of a chunk.
SimpleAcceptsAccepted(status) == status \in {ACCEPTED, CREATED, OK}

\* write_simple: StatusCode::CREATED | StatusCode::OK
SimpleAccepts(status) == status \in {CREATED, OK}

\* Mutant: the arm for the other statuses does not return.
ChunkAcceptsAll(status) == TRUE

\* Mutant: only the typical 202 Accepted is taken as the success of a chunk.
ChunkAcceptsOnlyAccepted(status) == status = ACCEPTED

\* write_chunked: StatusCode::ACCEPTED | StatusCode::CREATED | StatusCode::OK
ChunkAccepts(status) == status \in {ACCEPTED, CREATED, OK}

\* Mutant: 201 Created also counts as a created session.
SessionAcceptsCreated(status) == status \in {OK, CREATED}

\* Mutant: every 2xx status counts as a created session.
SessionAcceptsSuccess(status) == status \in 200..299

\* create_upload_session: StatusCode::OK
SessionAccepts(status) == status = OK

\* Mutant: the end is not clamped to the length of the payload.
ChunkEndUnclamped(off, total_len) == off + CHUNK_SIZE_FACTOR - 1

\* write_chunked: chunk_end, from offset and total_bytes.len()
ChunkEnd(off, total_len) ==
    LET end == off + CHUNK_SIZE_FACTOR
    IN  (IF end > total_len THEN total_len ELSE end) - 1

\* Mutant: the offset moves on to the byte after the next one to send.
NextOffsetSkips(off) == off + CHUNK_SIZE_FACTOR + 1

\* write_chunked: offset += CHUNK_SIZE_FACTOR
NextOffset(off) == off + CHUNK_SIZE_FACTOR

\* Mutant: the endpoint of an earlier upload is used again when there is one.
UploadUrlReused(c, created) ==
    IF sessionLog = {} THEN created
    ELSE (CHOOSE e \in sessionLog : \A f \in sessionLog : e.url <= f.url).url

\* write_chunked: &session_response.upload_url, the endpoint of the chunk
\* requests of call c, whose session creation returned created
UploadUrl(c, created) == created

\* Mutant: a failure to read the body of an accepted response is ignored.
BodyConsumedAlways(r) == TRUE

\* resp.into_body().consume().await? and resp.into_body().bytes().await?
BodyConsumed(r) == r.body # "io_err"

\* serde_json::from_reader(bs.reader()): the body is a session object
BodyParses(r) == r.body = "ok"


(***************************************************************************)
(* Inputs.                                                                 *)
(***************************************************************************)
Paths == { << >>, <<"a">>, <<"d", "/">>, <<"d", "/", "a">> }

ContentTypes == {"none", "text/plain"}

Backends == {"onedrive"}

\* Largest number of chunks of the payloads handed to write_chunked directly,
\* the payload of 1,000,000 bytes apart.
MaxDirectChunks == 2

\* Lengths of exactly k chunks: the shortest, one byte less than a multiple
\* of the chunk size, and the multiple.
OfChunks(k) ==
    {(k - 1) * CHUNK_SIZE_FACTOR + 1, k * CHUNK_SIZE_FACTOR - 1, k * CHUNK_SIZE_FACTOR}

\* Lengths handed to write(): around 0, around the threshold, and payloads
\* of MaxChunks chunks.
WriteSizes ==
    {0, 1, MAX_SIMPLE_SIZE - 1, MAX_SIMPLE_SIZE, MAX_SIMPLE_SIZE + 1,
     (MaxChunks - 1) * CHUNK_SIZE_FACTOR + 1, MaxChunks * CHUNK_SIZE_FACTOR}

\* Lengths handed to write_chunked (pub(crate)) directly.
DirectSizes ==
    {0, 1000000} \cup UNION {OfChunks(k) : k \in 1..MaxDirectChunks}

\* Lengths handed to the write() calls that follow the first one on a writer:
\* one of each path.
LaterWriteSizes == {1, MAX_SIMPLE_SIZE + 1}

\* Lengths handed to the write_chunked calls that follow the first call.
LaterDirectSizes == {CHUNK_SIZE_FACTOR + 1}

\* The payload handed to the next upload that runs as call c.
PayloadId(c) == <<c, writes[c] + 1>>

\* The upload_urls a session creation can be answered with: the one of a new
\* session, or one that the backend has handed out before.
UploadUrls == 1..nextSession

(***************************************************************************)
(* The state after OneDriveWriter::new.                                    *)
(***************************************************************************)
\* Every writer is constructed, no call has been made; the calls to come
\* can be made on any writer.
Construct ==
    /\ backend \in [Writers -> Backends]
    /\ op \in [Writers -> ContentTypes]
    /\ path \in [Writers -> Paths]
    /\ ret = [w \in Writers |-> [call |-> "none", result |-> "none"]]
    /\ self \in [Calls -> Writers]
    /\ pc = [c \in Calls |-> "idle"]
    /\ entry = [c \in Calls |-> "none"]
    /\ total_bytes = [c \in Calls |-> << >>]
    /\ session = [c \in Calls |-> NoSession]
    /\ offset = [c \in Calls |-> 0]
    /\ iter = [c \in Calls |-> << >>]
    /\ reqs = [c \in Calls |-> << >>]
    /\ resps = [c \in Calls |-> << >>]
    /\ lastResp = [c \in Calls |-> NoResponse]
    /\ result = [c \in Calls |-> "none"]
    /\ writes = [c \in Calls |-> 0]
    /\ nextSession = 1
    /\ sessionLog = {}

\* One writer, of any path and content type, on which the calls are made.
Init ==
    /\ Construct
    /\ self = [c \in Calls |-> 1]
    /\ \A w \in Writers \ {1} : path[w] = <<"a">> /\ op[w] = "none"

(***************************************************************************)
(* Steps shared by the handlers.                                           *)
(***************************************************************************)
\* The fields of every writer stay as they are.
FieldsUnchanged == UNCHANGED <<backend, op, path>>

\* The upload that runs as call c returns res.
Return(c, res) ==
    /\ pc' = [pc EXCEPT ![c] = "idle"]
    /\ result' = [result EXCEPT ![c] = res]
    /\ ret' = [ret EXCEPT ![self[c]] = [call |-> entry[c], result |-> res]]

\* Call c issues request rq and awaits its response.
Await(c, kind, rq) ==
    /\ reqs' = [reqs EXCEPT ![c] = Append(@, rq)]
    /\ pc' = [pc EXCEPT ![c] = kind]
    /\ UNCHANGED <<result, ret>>

\* The await of the backend call of c returns r: the error is returned, or
\* the status of the response is there and its body is awaited.
Arrives(c, kind, r) ==
    /\ lastResp' = [lastResp EXCEPT ![c] = r]
    /\ IF r = TransportError
       THEN /\ resps' = [resps EXCEPT ![c] = Append(@, FALSE)]
            /\ Return(c, "Transport")
       ELSE /\ pc' = [pc EXCEPT ![c] = kind]
            /\ UNCHANGED <<resps, result, ret>>

\* The read of the body of the response to c ends: r is the whole response.
Answered(c, kind, r) ==
    /\ resps' = [resps EXCEPT ![c] = Append(@, AnsweredWell(kind, r))]
    /\ lastResp' = [lastResp EXCEPT ![c] = r]

\* The borrow of self that entry e takes is free: write takes &mut self, so
\* no other call of the writer is alive; write_chunked takes &self, so no
\* call that holds &mut self is.
Borrow(c, e) ==
    \A d \in Calls \ {c} :
        self[d] = self[c] /\ pc[d] # "idle" =>
            e = "write_chunked" /\ entry[d] = "write_chunked"

\* An upload of bs begins as call c, entered by e.
Begin(c, e, bs) ==
    /\ pc[c] = "idle"
    /\ Borrow(c, e)
    /\ writes[c] < MaxWrites
    /\ writes' = [writes EXCEPT ![c] = @ + 1]
    /\ entry' = [entry EXCEPT ![c] = e]
    /\ total_bytes' = [total_bytes EXCEPT ![c] = bs]
    /\ session' = [session EXCEPT ![c] = NoSession]
    /\ offset' = [offset EXCEPT ![c] = 0]
    /\ iter' = [iter EXCEPT ![c] = << >>]
    /\ resps' = [resps EXCEPT ![c] = << >>]
    /\ lastResp' = [lastResp EXCEPT ![c] = NoResponse]
    /\ ret' = [ret EXCEPT ![self[c]] = [call |-> e, result |-> result'[c]]]
    /\ UNCHANGED <<self, nextSession, sessionLog>>
    /\ FieldsUnchanged

\* write_simple up to the await of onedrive_put
WriteSimpleStart(c, bs) ==
    /\ reqs' = [reqs EXCEPT ![c] = << PutRequest(c, bs) >>]
    /\ pc' = [pc EXCEPT ![c] = "put"]
    /\ result' = [result EXCEPT ![c] = "pending"]

\* write_chunked and create_upload_session up to the await of onedrive_post
WriteChunkedStart(c) ==
    LET name == FileNameFromPath(path[self[c]])
    IN  IF name.some
        THEN /\ reqs' = [reqs EXCEPT ![c] = << PostRequest(c, name.val) >>]
             /\ pc' = [pc EXCEPT ![c] = "post"]
             /\ result' = [result EXCEPT ![c] = "pending"]
        ELSE /\ reqs' = [reqs EXCEPT ![c] = << >>]
             /\ UNCHANGED pc
             /\ result' = [result EXCEPT ![c] = "Unexpected"]

\* The entry of sessionLog for url: the upload that runs as call c did ev.
LogEntry(c, url, ev) == [url |-> url, by |-> <<c, writes[c]>>, ev |-> ev]

\* The head of the loop of write_chunked with offset off and the chunks it
\* still to take: the next chunk is sent, or the loop ends and Ok is returned.
\* log is sessionLog with what the step has added to it so far.
LoopHead(c, url, off, it, log) ==
    /\ offset' = [offset EXCEPT ![c] = off]
    /\ IF it = << >>
       THEN /\ iter' = [iter EXCEPT ![c] = << >>]
            /\ UNCHANGED reqs
            /\ sessionLog' = log
            /\ Return(c, "Ok")
       ELSE LET total_len == BytesLen(total_bytes[c])
            IN  /\ iter' = [iter EXCEPT ![c] = Tail(it)]
                /\ sessionLog' = log \cup {LogEntry(c, url, "chunk")}
                /\ Await(c, "chunk",
                         ChunkRequest(url, off, ChunkEnd(off, total_len),
                                      total_len, Head(it)))

(***************************************************************************)
(* The operations.                                                         *)
(***************************************************************************)
\* Mutant: the writer keeps what it was handed before and uploads the new
\* bytes appended to it.
WriteAppends(c, p, n) ==
    LET bs == Concat(total_bytes[c], Payload(p, n))
    IN  /\ IF TakesSimplePath(BytesLen(bs))
           THEN WriteSimpleStart(c, bs)
           ELSE WriteChunkedStart(c)
        /\ Begin(c, "write", bs)

\* write(bs), bs the n bytes of payload p
Write(c, p, n) ==
    LET bs == Payload(p, n)
    IN  /\ IF TakesSimplePath(BytesLen(bs))
           THEN WriteSimpleStart(c, bs)
           ELSE WriteChunkedStart(c)
        /\ Begin(c, "write", bs)

\* write_chunked(total_bytes) called directly
WriteChunked(c, p, n) ==
    /\ WriteChunkedStart(c)
    /\ Begin(c, "write_chunked", Payload(p, n))

\* write_simple: the await of onedrive_put returns
PutResponse(c, r) ==
    /\ pc[c] = "put"
    /\ UNCHANGED <<self, entry, total_bytes, session, offset, iter, reqs, writes,
                   nextSession, sessionLog>>
    /\ FieldsUnchanged
    /\ Arrives(c, "put_body", r)

\* write_simple: the await of consume() or of parse_error returns, the body
\* read as b
PutBody(c, b) ==
    /\ pc[c] = "put_body"
    /\ UNCHANGED <<self, entry, total_bytes, session, offset, iter, reqs, writes,
                   nextSession, sessionLog>>
    /\ FieldsUnchanged
    /\ LET r == [lastResp[c] EXCEPT !.body = b]
       IN  /\ Answered(c, "put", r)
           /\ IF SimpleAccepts(r.status)
              THEN IF BodyConsumed(r) THEN Return(c, "Ok") ELSE Return(c, "Io")
              ELSE Return(c, UnexpectedStatus(r))

\* create_upload_session: the await of onedrive_post returns
PostResponse(c, r) ==
    /\ pc[c] = "post"
    /\ UNCHANGED <<self, entry, total_bytes, session, offset, iter, reqs, writes,
                   nextSession, sessionLog>>
    /\ FieldsUnchanged
    /\ Arrives(c, "post_body", r)

\* create_upload_session: the await of bytes() or of parse_error returns, the
\* body read as b and naming the upload_url u; and write_chunked up to its
\* first chunk request
PostBody(c, b, u) ==
    /\ pc[c] = "post_body"
    /\ UNCHANGED <<self, entry, total_bytes, writes>>
    /\ FieldsUnchanged
    /\ LET r == [lastResp[c] EXCEPT !.body = b]
       IN  /\ Answered(c, "post", r)
           /\ IF SessionAccepts(r.status) /\ BodyConsumed(r) /\ BodyParses(r)
              THEN /\ session' = [session EXCEPT ![c] = u]
                   /\ nextSession' = IF u = nextSession THEN nextSession + 1
                                     ELSE nextSession
                   /\ LoopHead(c, UploadUrl(c, u), 0,
                               Chunks(total_bytes[c], CHUNK_SIZE_FACTOR),
                               sessionLog \cup {LogEntry(c, u, "created")})
              ELSE /\ Return(c, IF ~SessionAccepts(r.status) THEN UnexpectedStatus(r)
                                ELSE IF ~BodyConsumed(r) THEN "Io"
                                ELSE "Json")
                   /\ UNCHANGED <<session, nextSession, offset, iter, reqs,
                                  sessionLog>>

\* Mutant: a chunk whose request failed is sent again.
ChunkResponseRetries(c, r) ==
    /\ pc[c] = "chunk"
    /\ UNCHANGED <<self, entry, total_bytes, session, offset, iter, writes,
                   nextSession, sessionLog>>
    /\ FieldsUnchanged
    /\ lastResp' = [lastResp EXCEPT ![c] = r]
    /\ IF r = TransportError
       THEN /\ resps' = [resps EXCEPT ![c] = Append(@, FALSE)]
            /\ Await(c, "chunk", reqs[c][Len(reqs[c])])
       ELSE /\ pc' = [pc EXCEPT ![c] = "chunk_body"]
            /\ UNCHANGED <<reqs, resps, result, ret>>

\* write_chunked: the await of onedrive_chunked_upload returns
ChunkResponse(c, r) ==
    /\ pc[c] = "chunk"
    /\ UNCHANGED <<self, entry, total_bytes, session, offset, iter, reqs, writes,
                   nextSession, sessionLog>>
    /\ FieldsUnchanged
    /\ Arrives(c, "chunk_body", r)

\* One turn of the loop of write_chunked, from the return of the await of
\* consume() or of parse_error, the body read as b, to the next chunk request
\* or the return
ChunkBody(c, b) ==
    /\ pc[c] = "chunk_body"
    /\ UNCHANGED <<self, entry, total_bytes, session, writes, nextSession>>
    /\ FieldsUnchanged
    /\ LET r == [lastResp[c] EXCEPT !.body = b]
       IN  /\ Answered(c, "chunk", r)
           /\ IF ChunkAccepts(r.status) /\ BodyConsumed(r)
              THEN LoopHead(c, UploadUrl(c, session[c]), NextOffset(offset[c]),
                            iter[c], sessionLog)
              ELSE /\ Return(c, IF ~ChunkAccepts(r.status) THEN UnexpectedStatus(r)
                                ELSE "Io")
                   /\ UNCHANGED <<offset, iter, reqs, sessionLog>>

\* No call is alive on writer w: &mut self can be taken.
Exclusive(w) == \A c \in Calls : self[c] = w => pc[c] = "idle"

\* Mutant: abort() asks the backend to delete the sessions of the writer.
AbortDeletesSession(w) ==
    /\ Exclusive(w)
    /\ ret' = [ret EXCEPT ![w] = [call |-> "abort", result |-> "Ok"]]
    /\ reqs' = [c \in Calls |->
                   IF self[c] = w
                   THEN Append(reqs[c], [kind |-> "delete", url |-> session[c]])
                   ELSE reqs[c]]
    /\ UNCHANGED <<self, pc, entry, total_bytes, session, offset, iter, resps,
                   lastResp, result, writes, nextSession, sessionLog>>
    /\ FieldsUnchanged

\* abort(): Ok(())
Abort(w) ==
    /\ Exclusive(w)
    /\ ret' = [ret EXCEPT ![w] = [call |-> "abort", result |-> "Ok"]]
    /\ UNCHANGED <<self, pc, entry, total_bytes, session, offset, iter, reqs,
                   resps, lastResp, result, writes, nextSession, sessionLog>>
    /\ FieldsUnchanged

\* Mutant: close() sends a commit request to the sessions of the writer.
CloseCommits(w) ==
    /\ Exclusive(w)
    /\ ret' = [ret EXCEPT ![w] = [call |-> "close", result |-> "Ok"]]
    /\ reqs' = [c \in Calls |->
                   IF self[c] = w
                   THEN Append(reqs[c], [kind |-> "commit", url |-> session[c]])
                   ELSE reqs[c]]
    /\ UNCHANGED <<self, pc, entry, total_bytes, session, offset, iter, resps,
                   lastResp, result, writes, nextSession, sessionLog>>
    /\ FieldsUnchanged

\* close(): Ok(())
Close(w) ==
    /\ Exclusive(w)
    /\ ret' = [ret EXCEPT ![w] = [call |-> "close", result |-> "Ok"]]
    /\ UNCHANGED <<self, pc, entry, total_bytes, session, offset, iter, reqs,
                   resps, lastResp, result, writes, nextSession, sessionLog>>
    /\ FieldsUnchanged

\* The caller drops the future of call c at the await it is suspended at.
Cancel(c) ==
    /\ pc[c] # "idle"
    /\ pc' = [pc EXCEPT ![c] = "idle"]
    /\ result' = [result EXCEPT ![c] = "Cancelled"]
    /\ ret' = [ret EXCEPT ![self[c]] = [call |-> entry[c], result |-> "Cancelled"]]
    /\ UNCHANGED <<self, entry, total_bytes, session, offset, iter, reqs, resps,
                   lastResp, writes, nextSession, sessionLog>>
    /\ FieldsUnchanged

(***************************************************************************)
(* The calls on a writer follow one another: each is made when the one     *)
(* before has returned or was dropped.                                     *)
(***************************************************************************)
Next ==
    \E c \in SeqCalls :
        \/ \E n \in (IF writes[c] = 0 THEN WriteSizes ELSE LaterWriteSizes) :
               Write(c, PayloadId(c), n)
        \/ \E n \in (IF writes[c] = 0 THEN DirectSizes ELSE LaterDirectSizes) :
               WriteChunked(c, PayloadId(c), n)
        \/ \E r \in ResponseHeads : PutResponse(c, r)
        \/ \E b \in UploadBodies : PutBody(c, b)
        \/ \E r \in ResponseHeads : PostResponse(c, r)
        \/ \E b \in PostBodies : \E u \in UploadUrls : PostBody(c, b, u)
        \/ \E r \in ResponseHeads : ChunkResponse(c, r)
        \/ \E b \in UploadBodies : ChunkBody(c, b)
        \/ Abort(self[c])
        \/ Close(self[c])
        \/ Cancel(c)

Spec == Init /\ [][Next]_vars

(***************************************************************************)
(* Calls that are alive at the same time, one upload each, their steps     *)
(* interleaved at the awaits: calls on different writers, and calls of     *)
(* write_chunked on one writer.  The backend accepts what it is sent and   *)
(* names every session anew; the calls run on or are dropped.              *)
(***************************************************************************)
\* Number of chunks of the chunked uploads of the calls that run together.
ConcChunks == 2

\* Lengths handed to write() by the calls that run together.
ConcWriteSizes == {1}

\* Lengths handed to write_chunked by the calls that run together.
ConcDirectSizes == {(ConcChunks - 1) * CHUNK_SIZE_FACTOR + 1}

\* What the backend calls of the calls that run together return: a response
\* of accepted status.
ConcHeads == [status : {OK}, body : {"pending"}]

\* The bodies of these responses are read.
ConcBodies == {"ok"}

\* Writers that are alike.  A call is made on a writer on which an earlier
\* call is made too, or on the next writer.
ConcInit ==
    /\ Construct
    /\ self[1] = 1
    /\ \A c \in Calls \ {1} : \E d \in 1..(c - 1) : self[c] <= self[d] + 1
    /\ \A w \in Writers : path[w] = <<"d", "/", "a">> /\ op[w] = "text/plain"

ConcNext ==
    \E c \in Calls :
        \/ \E n \in ConcWriteSizes : writes[c] = 0 /\ Write(c, PayloadId(c), n)
        \/ \E n \in ConcDirectSizes : writes[c] = 0 /\ WriteChunked(c, PayloadId(c), n)
        \/ \E r \in ConcHeads : PutResponse(c, r)
        \/ \E b \in ConcBodies : PutBody(c, b)
        \/ \E r \in ConcHeads : PostResponse(c, r)
        \/ \E b \in ConcBodies : PostBody(c, b, nextSession)
        \/ \E r \in ConcHeads : ChunkResponse(c, r)
        \/ \E b \in ConcBodies : ChunkBody(c, b)
        \/ Cancel(c)

ConcSpec == ConcInit /\ [][ConcNext]_vars

(***************************************************************************)
(* The backend answers.                                                    *)
(***************************************************************************)
\* Every await of a backend call and every await of the read of a response
\* returns.
BackendAnswers ==
    \A c \in SeqCalls :
        /\ WF_vars(\E r \in ResponseHeads : PutResponse(c, r))
        /\ WF_vars(\E b \in UploadBodies : PutBody(c, b))
        /\ WF_vars(\E r \in ResponseHeads : PostResponse(c, r))
        /\ WF_vars(\E b \in PostBodies : \E u \in UploadUrls : PostBody(c, b, u))
        /\ WF_vars(\E r \in ResponseHeads : ChunkResponse(c, r))
        /\ WF_vars(\E b \in UploadBodies : ChunkBody(c, b))

\* One writer of one file: an upload ends or not whatever the path and the
\* content type are.
FairInit ==
    /\ Init
    /\ \A c \in SeqCalls :
           path[self[c]] = <<"d", "/", "a">> /\ op[self[c]] = "text/plain"

FairSpec == FairInit /\ [][Next]_vars /\ BackendAnswers

(***************************************************************************)
(* Vocabulary of the properties.                                           *)
(***************************************************************************)
\* Length of the payload of the current/last upload of c.
TotalLen(c) == BytesLen(total_bytes[c])

\* The chunk requests of the current/last upload of c, in the order issued.
ChunkReqs(c) == SelectSeq(reqs[c], LAMBDA q : q.kind = "chunk")

\* Number of requests of kind k of the current/last upload of c.
CountKind(c, k) == Cardinality({i \in 1..Len(reqs[c]) : reqs[c][i].kind = k})

\* The upload of c was entered through write().
ViaWrite(c) == entry[c] = "write"

\* The upload of c is a chunked one.
IsChunked(c) ==
    \/ entry[c] = "write_chunked"
    \/ entry[c] = "write" /\ TotalLen(c) > MAX_SIMPLE_SIZE

\* The upload of c has returned to its caller.
Returned(c) == pc[c] = "idle" /\ result[c] \notin {"none", "pending", "Cancelled"}

ErrorResults == {"Backend", "Transport", "Io", "Json", "Unexpected"}

\* lastResp[c] is a whole response, its body read, or the error of a call.
LastRead(c) == lastResp[c].body # "pending"

\* The backend has named every session it created differently.
FreshUrls ==
    \A e, f \in sessionLog :
        e.ev = "created" /\ f.ev = "created" /\ e.url = f.url => e.by = f.by

\* Every request of the upload of c was answered, and answered well.
AllAnsweredWell(c) ==
    /\ Len(resps[c]) = Len(reqs[c])
    /\ \A i \in 1..Len(resps[c]) : resps[c][i]

\* The bodies of the requests cs, one after the other.
RECURSIVE ConcatBodies(_)
ConcatBodies(cs) ==
    IF cs = << >> THEN << >> ELSE Concat(Head(cs).body, ConcatBodies(Tail(cs)))

(***************************************************************************)
(* C1.  A write() of at most MAX_SIMPLE_SIZE bytes issues one put request  *)
(* and nothing else; a write() of more bytes issues no put request, only   *)
(* the session creation and chunk requests.  No write issues requests of   *)
(* both paths.                                                             *)
(***************************************************************************)
C1_OnePathBySize ==
    \A c \in Calls :
        ViaWrite(c) =>
            /\ TotalLen(c) <= MAX_SIMPLE_SIZE =>
                   Len(reqs[c]) = 1 /\ reqs[c][1].kind = "put"
            /\ TotalLen(c) > MAX_SIMPLE_SIZE =>
                   \A i \in 1..Len(reqs[c]) : reqs[c][i].kind \in {"post", "chunk"}

\* A write() of MAX_SIMPLE_SIZE + 1 bytes that has sent chunks.
C1_Witness ==
    \E c \in Calls :
        /\ ViaWrite(c)
        /\ TotalLen(c) = MAX_SIMPLE_SIZE + 1
        /\ CountKind(c, "chunk") >= 1
        /\ CountKind(c, "put") = 0

(***************************************************************************)
(* C2.  When every request is answered with success, a write() of L bytes  *)
(* has issued exactly one request if L <= MAX_SIMPLE_SIZE, and exactly one *)
(* session creation plus ceil(L / CHUNK_SIZE_FACTOR) chunk requests        *)
(* otherwise.                                                              *)
(***************************************************************************)
C2_RequestCount ==
    \A c \in Calls :
        ViaWrite(c) /\ Returned(c) /\ AllAnsweredWell(c) =>
            IF TotalLen(c) <= MAX_SIMPLE_SIZE
            THEN Len(reqs[c]) = 1
            ELSE /\ CountKind(c, "post") = 1
                 /\ CountKind(c, "chunk") = CeilDiv(TotalLen(c), CHUNK_SIZE_FACTOR)
                 /\ Len(reqs[c]) = 1 + CeilDiv(TotalLen(c), CHUNK_SIZE_FACTOR)

\* A write() of one byte more than 13 chunk sizes returned Ok after 14 chunks.
C2_Witness ==
    \E c \in Calls :
        /\ ViaWrite(c) /\ Returned(c) /\ AllAnsweredWell(c)
        /\ TotalLen(c) = 13 * CHUNK_SIZE_FACTOR + 1
        /\ CountKind(c, "chunk") = 14
        /\ result[c] = "Ok"

(***************************************************************************)
(* C3.  In a chunked upload of L bytes, the range of every chunk request   *)
(* but the last of the ceil(L / CHUNK_SIZE_FACTOR) is CHUNK_SIZE_FACTOR    *)
(* long, and the range of the last is L - CHUNK_SIZE_FACTOR * (n - 1)      *)
(* long: the factor itself when it divides L, never zero.                  *)
(***************************************************************************)
C3_ChunkSizes ==
    \A c \in Calls :
        LET cs == ChunkReqs(c)
            n == CeilDiv(TotalLen(c), CHUNK_SIZE_FACTOR)
        IN  /\ Len(cs) <= n
            /\ \A i \in 1..Len(cs) :
                   LET size == cs[i].end - cs[i].start + 1
                   IN  /\ i < n => size = CHUNK_SIZE_FACTOR
                       /\ i = n =>
                              /\ size = TotalLen(c) - CHUNK_SIZE_FACTOR * (n - 1)
                              /\ size > 0
                              /\ TotalLen(c) % CHUNK_SIZE_FACTOR = 0 =>
                                     size = CHUNK_SIZE_FACTOR

\* The upload of 1,000,000 bytes in 4 chunks of 327680, 327680, 327680 and
\* 16960 bytes.
C3_Witness ==
    \E c \in Calls :
        LET cs == ChunkReqs(c)
        IN  /\ TotalLen(c) = 1000000
            /\ result[c] = "Ok"
            /\ [i \in 1..Len(cs) |-> cs[i].end - cs[i].start + 1]
                   = <<327680, 327680, 327680, 16960>>
            /\ [i \in 1..Len(cs) |-> <<cs[i].start, cs[i].end>>]
                   = << <<0, 327679>>, <<327680, 655359>>,
                        <<655360, 983039>>, <<983040, 999999>> >>

(***************************************************************************)
(* C4.  In a chunked upload that returned Ok the ranges of the chunks are  *)
(* contiguous and do not overlap: the first starts at 0, each next one     *)
(* starts right after the end of the one before, the last ends at L - 1;   *)
(* and the bodies of the chunks, in ascending order of offset, make up the *)
(* payload, byte for byte.                                                 *)
(***************************************************************************)
C4_RoundTrip ==
    \A c \in Calls :
        IsChunked(c) /\ result[c] = "Ok" =>
            LET cs == ChunkReqs(c)
            IN  /\ TotalLen(c) > 0 =>
                       /\ cs # << >>
                       /\ cs[1].start = 0
                       /\ cs[Len(cs)].end = TotalLen(c) - 1
                /\ \A i \in 2..Len(cs) : cs[i].start = cs[i - 1].end + 1
                /\ \A i \in 1..Len(cs) : cs[i].start <= cs[i].end
                /\ ConcatBodies(cs) = total_bytes[c]

\* A write() whose last chunk is a short one returned Ok.
C4_Witness ==
    \E c \in Calls :
        /\ ViaWrite(c) /\ IsChunked(c) /\ result[c] = "Ok"
        /\ TotalLen(c) % CHUNK_SIZE_FACTOR # 0
        /\ Len(ChunkReqs(c)) >= 13
        /\ ConcatBodies(ChunkReqs(c)) = total_bytes[c]

(***************************************************************************)
(* C5.  Chunk requests are issued in strictly ascending order of offset,   *)
(* and only after the session creation request, the first request of the   *)
(* upload, was answered with success and a session endpoint was parsed     *)
(* from it; after a failed session creation there is no chunk request.     *)
(***************************************************************************)
C5_SessionThenAscending ==
    \A c \in Calls :
        /\ \A i \in 1..Len(reqs[c]) :
               reqs[c][i].kind = "chunk" =>
                   /\ i >= 2
                   /\ reqs[c][1].kind = "post"
                   /\ Len(resps[c]) >= 1 /\ resps[c][1]
                   /\ session[c] # NoSession
                   /\ reqs[c][i].url = session[c]
                   /\ i > 2 =>
                          /\ reqs[c][i - 1].kind = "chunk"
                          /\ reqs[c][i - 1].start < reqs[c][i].start
        /\ ( /\ Len(resps[c]) >= 1
             /\ reqs[c][1].kind = "post"
             /\ ~resps[c][1] ) =>
               /\ CountKind(c, "chunk") = 0
               /\ session[c] = NoSession

\* An upload whose session was created is awaiting the answer to its third
\* chunk, the chunk at offset 2 * CHUNK_SIZE_FACTOR.
C5_Witness ==
    \E c \in Calls :
        /\ pc[c] = "chunk"
        /\ CountKind(c, "chunk") = 3
        /\ reqs[c][4].start = 2 * CHUNK_SIZE_FACTOR
        /\ resps[c][1]
        /\ session[c] # NoSession

MalformedPath(p) == p = << >> \/ p[Len(p)] = "/"

C7_MalformedPathNoRequest ==
    \A c \in Calls : MalformedPath(path[self[c]]) => reqs[c] = << >>

(***************************************************************************)
(* C8.  A chunked upload that returns, returns Ok or an error.  It returns *)
(* Ok only when the session creation and every one of the                  *)
(* ceil(L / CHUNK_SIZE_FACTOR) chunk requests, the last one included, were *)
(* answered with success; in every other case it returns an error.         *)
(***************************************************************************)
\* The session creation and all the chunks of the upload of c were accepted.
WholePayloadAccepted(c) ==
    /\ AllAnsweredWell(c)
    /\ Len(reqs[c]) >= 1 /\ reqs[c][1].kind = "post"
    /\ CountKind(c, "chunk") = CeilDiv(TotalLen(c), CHUNK_SIZE_FACTOR)
    /\ Len(reqs[c]) = 1 + CountKind(c, "chunk")
    /\ TotalLen(c) > 0 => reqs[c][Len(reqs[c])].end = TotalLen(c) - 1

C8_AllOrNothing ==
    \A c \in Calls :
        IsChunked(c) /\ Returned(c) =>
            /\ result[c] \in {"Ok"} \cup ErrorResults
            /\ result[c] = "Ok" => WholePayloadAccepted(c)
            /\ ~WholePayloadAccepted(c) => result[c] \in ErrorResults

\* A write() returned an error although 13 of its 14 chunks were accepted.
C8_Witness ==
    \E c \in Calls :
        /\ ViaWrite(c) /\ IsChunked(c) /\ Returned(c)
        /\ CountKind(c, "chunk") = 14
        /\ Len(resps[c]) = 15
        /\ \A i \in 1..14 : resps[c][i]
        /\ ~resps[c][15]
        /\ result[c] \in ErrorResults

(***************************************************************************)
(* C9.  The last request of a chunked upload that returned Ok is the chunk *)
(* that ends at total - 1, and it stays the last one: no commit request    *)
(* follows it, in write() or in a later close() or abort().  A session     *)
(* that a write() of more than MAX_SIMPLE_SIZE bytes created is sent at    *)
(* least one chunk.                                                        *)
(***************************************************************************)
C9_LastChunkCommits ==
    \A c \in Calls :
        /\ IsChunked(c) /\ result[c] = "Ok" /\ TotalLen(c) > 0 =>
               LET last == reqs[c][Len(reqs[c])]
               IN  /\ last.kind = "chunk"
                   /\ last.end = TotalLen(c) - 1
                   /\ last.total = TotalLen(c)
        /\ \A i \in 1..Len(reqs[c]) : reqs[c][i].kind \in {"put", "post", "chunk"}
        /\ ViaWrite(c) /\ TotalLen(c) > MAX_SIMPLE_SIZE /\ session[c] # NoSession =>
               CountKind(c, "chunk") >= 1

\* close() returned after a write() of 14 chunks that returned Ok.
C9_Witness ==
    \E c \in Calls :
        /\ ViaWrite(c) /\ IsChunked(c) /\ result[c] = "Ok"
        /\ ret[self[c]] = [call |-> "close", result |-> "Ok"]
        /\ CountKind(c, "chunk") = 14

(***************************************************************************)
(* C10.  abort() and close() can be called whenever no upload is running   *)
(* on the writer: before any upload, after one that returned Ok, after one *)
(* that failed or was dropped, and again after each other.  The call       *)
(* returns Ok, issues no request and leaves the fields of the writer and   *)
(* all the rest of the state as they were, so that the uploads that can    *)
(* follow are the same.                                                    *)
(***************************************************************************)
\* A step that ends with abort() or close() having returned on writer w.
AbortOrCloseStep(w) ==
    /\ Exclusive(w)
    /\ \A c \in Calls : self[c] = w => pc'[c] = "idle"
    /\ ret'[w].call \in {"abort", "close"}

C10_AbortCloseNoOp ==
    /\ [](\A w \in Writers :
              Exclusive(w) => ENABLED Abort(w) /\ ENABLED Close(w))
    /\ [][\A w \in Writers :
              AbortOrCloseStep(w) =>
                  /\ ret'[w].result = "Ok"
                  /\ UNCHANGED <<backend, op, path>>
                  /\ UNCHANGED <<reqs, resps, lastResp, nextSession, sessionLog>>
                  /\ UNCHANGED <<self, pc, entry, total_bytes, session, offset,
                                 iter, result, writes>>]_vars

\* abort() returned on a writer whose last upload failed on a rejected
\* chunk; the writer can still start an upload.
C10_Witness ==
    \E c \in Calls :
        /\ ret[self[c]] = [call |-> "abort", result |-> "Ok"]
        /\ result[c] = "Backend"
        /\ CountKind(c, "chunk") >= 1
        /\ writes[c] < MaxWrites
        /\ pc[c] = "idle"

(***************************************************************************)
(* C11.  A write() on the single-shot path returns Ok only when its put    *)
(* request was answered 201 Created or 200 OK, and it does when the body   *)
(* of that response is read to its end; with any other status, 202         *)
(* Accepted included, it fails, with the error reported by the backend     *)
(* for every response that can be read.                                    *)
(***************************************************************************)
\* The upload of c took the single-shot path and has returned.
SimpleReturned(c) ==
    ViaWrite(c) /\ TotalLen(c) <= MAX_SIMPLE_SIZE /\ Returned(c)

LastAnsweredIsChunk(c) ==
    /\ LastRead(c)
    /\ Len(resps[c]) >= 1
    /\ reqs[c][Len(resps[c])].kind = "chunk"

\* The upload of c went on after its last response: the next request is
\* out, or it returned Ok.
WentOn(c) == Len(reqs[c]) = Len(resps[c]) + 1 \/ result[c] = "Ok"

LastAnsweredIsPost(c) ==
    /\ LastRead(c)
    /\ Len(resps[c]) = 1
    /\ reqs[c][1].kind = "post"

C14_NoRetry ==
    \A c \in Calls :
        /\ CountKind(c, "put") <= 1
        /\ CountKind(c, "post") <= 1
        /\ LET cs == ChunkReqs(c)
           IN  Cardinality({cs[i].start : i \in 1..Len(cs)}) = Len(cs)
        /\ \A i \in 1..Len(resps[c]) :
               ~resps[c][i] =>
                   /\ i = Len(reqs[c])
                   /\ pc[c] = "idle"
                   /\ result[c] \in ErrorResults
        /\ Len(reqs[c]) - Len(resps[c]) \in {0, 1}

\* The call that sends the 5th chunk of a write() failed, and the write
\* returned the error with 5 chunk requests made.
C14_Witness ==
    \E c \in Calls :
        /\ ViaWrite(c)
        /\ CountKind(c, "chunk") = 5
        /\ Len(resps[c]) = 6
        /\ lastResp[c] = TransportError
        /\ result[c] = "Transport"
        /\ pc[c] = "idle"

(***************************************************************************)
(* C15.  A chunked upload creates one session, all its chunk requests go   *)
(* to the endpoint that its own session creation returned, and, the        *)
(* backend naming every session it creates differently, no endpoint        *)
(* receives chunks of two uploads, two uploads that follow each other on   *)
(* one writer included.                                                    *)
(***************************************************************************)
C15_OwnSession ==
    /\ \A c \in Calls :
           /\ CountKind(c, "post") <= 1
           /\ \A i \in 1..Len(reqs[c]) :
                  reqs[c][i].kind = "chunk" =>
                      /\ session[c] # NoSession
                      /\ reqs[c][i].url = session[c]
                      /\ LogEntry(c, session[c], "created") \in sessionLog
    /\ FreshUrls =>
           \A e, f \in sessionLog : e.url = f.url => e.by = f.by
    /\ \A e \in sessionLog :
           e.ev = "chunk" => [e EXCEPT !.ev = "created"] \in sessionLog

\* The second chunked upload of a writer sends chunks to its own session,
\* the first one having sent chunks to another.
C15_Witness ==
    \E c \in Calls :
        /\ FreshUrls
        /\ writes[c] = 2
        /\ CountKind(c, "chunk") >= 2
        /\ \E e \in sessionLog :
               e.by = <<c, 1>> /\ e.ev = "chunk" /\ e.url # session[c]
        /\ LogEntry(c, session[c], "chunk") \in sessionLog

(***************************************************************************)
(* C17.  At every point of a chunked upload, also when it is dropped at a  *)
(* request or stops on a chunk that failed, the chunks the backend has     *)
(* accepted are the first k of the upload, without gap and without         *)
(* duplicate.  When the last chunk is not among them the session stays     *)
(* uncommitted, and no request cleans it up.                               *)
(***************************************************************************)
\* The place, among the requests of c, of the request that lastResp[c]
\* answers.
LastAnswered(c) == IF LastRead(c) THEN Len(resps[c]) ELSE Len(resps[c]) + 1

\* The chunk requests (by their place among the chunk requests of c) that
\* the backend answered with one of its success statuses, the body of the
\* answer read or not.
AcceptedChunks(c) ==
    {i \in 1..Len(ChunkReqs(c)) :
        \/ i + 1 <= Len(resps[c]) /\ resps[c][i + 1]
        \/ /\ i + 1 = LastAnswered(c)
           /\ lastResp[c] # TransportError
           /\ lastResp[c].status \in SuccessCodes("chunk")}

\* The chunk requests that the backend may have accepted: those above, and
\* one that was dropped in flight or whose response never came.
MaybeAcceptedChunks(c) ==
    AcceptedChunks(c) \cup
        {i \in 1..Len(ChunkReqs(c)) :
            \/ i + 1 > LastAnswered(c)
            \/ i + 1 = Len(resps[c]) /\ lastResp[c] = TransportError}

\* The chunks of S are the chunks 1..k of the upload of c, each once.
IsPrefix(c, S) ==
    LET cs == ChunkReqs(c)
    IN  /\ S = 1..Cardinality(S)
        /\ \A i \in S : cs[i].start = (i - 1) * CHUNK_SIZE_FACTOR
        /\ Cardinality({cs[i].start : i \in S}) = Cardinality(S)

\* The session of c has been sent its last chunk and the backend took it.
Committed(c) ==
    \E i \in AcceptedChunks(c) : ChunkReqs(c)[i].end = TotalLen(c) - 1

C17_AcceptedPrefix ==
    \A c \in Calls :
        /\ IsPrefix(c, AcceptedChunks(c))
        /\ IsPrefix(c, MaybeAcceptedChunks(c))
        /\ \A i \in 1..Len(reqs[c]) : reqs[c][i].kind \in {"put", "post", "chunk"}
        /\ Committed(c) =>
               Cardinality(AcceptedChunks(c)) = CeilDiv(TotalLen(c), CHUNK_SIZE_FACTOR)

\* A write() was dropped while its third chunk was out: the backend has the
\* first two chunks, the session is not committed, abort() has returned.
C17_Witness ==
    \E c \in Calls :
        /\ ViaWrite(c)
        /\ result[c] = "Cancelled"
        /\ AcceptedChunks(c) = {1, 2}
        /\ CountKind(c, "chunk") = 3
        /\ ~Committed(c)
        /\ ret[self[c]] = [call |-> "abort", result |-> "Ok"]

(***************************************************************************)
(* C18.  The i-th chunk request (i from 0) of an upload of L bytes has     *)
(* start = i * CHUNK_SIZE_FACTOR and                                       *)
(* end = min((i + 1) * CHUNK_SIZE_FACTOR, L) - 1, with start <= end <=     *)
(* L - 1; its total is L; and its body is end - start + 1 bytes long: the  *)
(* range from the running offset agrees with the slice of the payload.     *)
(***************************************************************************)
C18_RangeMatchesSlice ==
    \A c \in Calls :
        LET cs == ChunkReqs(c)
            L == TotalLen(c)
        IN  \A k \in 1..Len(cs) :
                LET i == k - 1
                IN  /\ cs[k].start = i * CHUNK_SIZE_FACTOR
                    /\ cs[k].end = Min((i + 1) * CHUNK_SIZE_FACTOR, L) - 1
                    /\ cs[k].start <= cs[k].end
                    /\ cs[k].end <= L - 1
                    /\ cs[k].total = L
                    /\ BytesLen(cs[k].body) = cs[k].end - cs[k].start + 1
                    /\ cs[k].body = Slice(total_bytes[c], cs[k].start, cs[k].end + 1)

\* The 13th and last chunk of a write() of MAX_SIMPLE_SIZE + 1 bytes: the
\* bytes 12 * CHUNK_SIZE_FACTOR .. MAX_SIMPLE_SIZE.
C18_Witness ==
    \E c \in Calls :
        LET cs == ChunkReqs(c)
        IN  /\ ViaWrite(c)
            /\ TotalLen(c) = MAX_SIMPLE_SIZE + 1
            /\ Len(cs) = 13
            /\ cs[13].start = 12 * CHUNK_SIZE_FACTOR
            /\ cs[13].end = MAX_SIMPLE_SIZE
            /\ BytesLen(cs[13].body) = MAX_SIMPLE_SIZE + 1 - 12 * CHUNK_SIZE_FACTOR

(***************************************************************************)
(* C19.  The writer carries nothing from one write() to the next.  No step *)
(* changes its fields, and every upload is one of the payload of its own   *)
(* call alone, to the path of the writer: the requests carry bytes of that *)
(* payload only, the path taken depends on its length alone, a put sends   *)
(* all of it, a chunked upload has its own session (the backend naming     *)
(* every session it creates differently), starts at offset 0 and declares  *)
(* its own length as the total.  Payloads of successive write() calls are  *)
(* not appended to each other.                                             *)
(***************************************************************************)
\* The payload handed to the call that started the upload running on c.
OwnPayloadId(c) == <<c, writes[c]>>

\* b holds bytes of payload p only.
OnlyBytesOf(b, p) == \A i \in 1..Len(b) : b[i].src = p

C19_IndependentUploads ==
    /\ [][UNCHANGED <<backend, op, path>>]_vars
    /\ [](\A c \in Calls :
              /\ \A i \in 1..Len(reqs[c]) :
                     LET q == reqs[c][i]
                     IN  /\ q.kind \in {"put", "chunk"} =>
                                OnlyBytesOf(q.body, OwnPayloadId(c))
                         /\ q.kind \in {"put", "post"} => q.target = path[self[c]]
                         /\ q.kind = "put" =>
                                /\ q.body = total_bytes[c]
                                /\ q.size = TotalLen(c)
                                /\ q.size <= MAX_SIMPLE_SIZE
                         /\ q.kind = "chunk" =>
                                /\ q.total = TotalLen(c)
                                /\ i = 2 => q.start = 0
                                /\ q.url = session[c]
                                /\ FreshUrls =>
                                       \A e \in sessionLog :
                                           e.url = q.url => e.by = OwnPayloadId(c)
              /\ writes[c] >= 1 =>
                     total_bytes[c] = Payload(OwnPayloadId(c), TotalLen(c))
              /\ ViaWrite(c) /\ reqs[c] # << >> =>
                     (reqs[c][1].kind = "put") = (TotalLen(c) <= MAX_SIMPLE_SIZE))

\* The second write() of a writer, a chunked one, has sent its second chunk
\* to its own session, the first upload having been a chunked one as well.
C19_Witness ==
    \E c \in Calls :
        /\ FreshUrls
        /\ writes[c] = 2
        /\ ViaWrite(c)
        /\ CountKind(c, "chunk") = 2
        /\ reqs[c][2].start = 0
        /\ reqs[c][2].total = TotalLen(c)
        /\ OnlyBytesOf(reqs[c][3].body, <<c, 2>>)
        /\ \E e \in sessionLog : e.by = <<c, 1>> /\ e.ev = "chunk"

(***************************************************************************)
(* C20.  When the backend answers every request, every upload ends: it     *)
(* returns, Ok or an error, after at most one request on the single-shot   *)
(* path and at most 1 + ceil(L / CHUNK_SIZE_FACTOR) requests on the        *)
(* chunked path.                                                           *)
(***************************************************************************)
\* The most requests an upload of the payload of c makes.
MaxRequests(c) ==
    IF ViaWrite(c) /\ TotalLen(c) <= MAX_SIMPLE_SIZE
    THEN 1
    ELSE 1 + CeilDiv(TotalLen(c), CHUNK_SIZE_FACTOR)

C20_Terminates ==
    /\ [](\A c \in Calls : Len(reqs[c]) <= MaxRequests(c))
    /\ \A c \in Calls : (pc[c] # "idle") ~> (pc[c] = "idle")
    /\ \A c \in Calls :
           (result[c] = "pending") ~> (result[c] \in {"Ok", "Cancelled"} \cup ErrorResults)

\* A write() of 14 chunks returned Ok after its 15 requests.
C20_Witness ==
    \E c \in Calls :
        /\ ViaWrite(c)
        /\ Len(reqs[c]) = 15
        /\ Len(reqs[c]) = MaxRequests(c)
        /\ Returned(c)
        /\ result[c] = "Ok"

(***************************************************************************)
(* C16.  When writers run at the same time, one upload on each, their      *)
(* steps interleaved in any way, each writer has at most one request       *)
(* awaiting its response, the chunk requests of each upload are in         *)
(* strictly ascending order of offset, and no chunk goes to a session that *)
(* another writer created.  Each call has at most one request awaiting its *)
(* response also on a writer that two calls of write_chunked share.        *)
(***************************************************************************)
\* Number of requests of c that await their response.
InFlight(c) ==
    IF pc[c] = "idle" THEN 0
    ELSE Len(reqs[c]) - Len(resps[c]) - (IF LastRead(c) THEN 0 ELSE 1)

\* The calls that are alive on writer w.
Alive(w) == {c \in Calls : self[c] = w /\ pc[c] # "idle"}

\* Writer w runs one upload at most: it is not shared by two calls.
Unshared(w) == Cardinality(Alive(w)) <= 1

C16_Interleaved ==
    /\ \A c \in Calls :
           /\ InFlight(c) \in {0, 1}
           /\ pc[c] \in {"put", "post", "chunk"} =>
                  InFlight(c) = 1 /\ reqs[c][Len(reqs[c])].kind = pc[c]
           /\ pc[c] \in {"put_body", "post_body", "chunk_body"} => InFlight(c) = 0
           /\ LET cs == ChunkReqs(c)
              IN  \A i \in 2..Len(cs) : cs[i - 1].start < cs[i].start
           /\ \A i \in 1..Len(reqs[c]) :
                  reqs[c][i].kind = "chunk" =>
                      /\ reqs[c][i].url = session[c]
                      /\ \A e \in sessionLog :
                             e.url = reqs[c][i].url => e.by[1] = c
                      /\ \A d \in Calls \ {c} : session[d] # reqs[c][i].url
    /\ \A w \in Writers :
           Unshared(w) =>
               Cardinality({c \in Calls : self[c] = w /\ InFlight(c) = 1}) <= 1

\* Two writers, one upload on each, await the answer to a chunk at the same
\* time, the one to its first chunk, the other to its second, each in its
\* own session.
C16_Witness ==
    \E c, d \in Calls :
        /\ self[c] # self[d]
        /\ Unshared(self[c]) /\ Unshared(self[d])
        /\ pc[c] = "chunk" /\ pc[d] = "chunk"
        /\ InFlight(c) = 1 /\ InFlight(d) = 1
        /\ CountKind(c, "chunk") = 1
        /\ CountKind(d, "chunk") = 2
        /\ session[c] # session[d]
        /\ session[c] > session[d]

====
